---- MODULE Spec2Model ----
(***************************************************************************)
(* Model of the trading core of btc_bot: TradeExecutor (executor.py) and   *)
(* PaperTrader / PaperPortfolio / PaperTrade (paper_trader.py), with the   *)
(* market selector, the scorer, market discovery (markets.py) and the      *)
(* trading cycle under its two entry points (main.py with                  *)
(* job_scheduler.py, web/app.py).                                          *)
(*                                                                         *)
(* Specifications: Spec (the executor), PaperSpec (the paper trader used   *)
(* directly, with restarts), SelectSpec, ScoreSpec, DiscoverySpec, and     *)
(* CycleSpec (cycles as tasks that interleave at their awaits).            *)
(*                                                                         *)
(* Units.  Money (float USD in the source) is an integer number of         *)
(* dollars.  Token prices and the signal confidence (floats in [0, 1] in   *)
(* the source) are integers in hundredths, so 40 is 0.40 and 100 is 1.00.  *)
(* The input sets below are chosen so that every stake / price quotient    *)
(* the model forms is exact, as it is for the same values in binary        *)
(* floating point (100 / 0.40 = 250.0, 500 / 0.50 = 1000.0).               *)
(*                                                                         *)
(* A trade id "paper_%06d" is modelled by its number; the format is        *)
(* injective on the naturals.  The opaque pass-through fields of a trade   *)
(* (market_question, btc_price_at_entry) are left out.                     *)
(***************************************************************************)
EXTENDS Integers, Sequences, FiniteSets, TLC

VARIABLES
    config,         \* TradeExecutor.config (TradingConfig), fixed at start
    daily_trades,   \* TradeExecutor._daily_trades
    paper_trader,   \* TradeExecutor.paper_trader: None, or Some(PaperTrader)
    store,          \* the file at PaperTrader.save_path: None, or Some(blob)
    ret,            \* what the last operation returned or raised
    sel,            \* a call of select_best_market: its argument and result
    sc,             \* a MultiIndicatorScorer, a bundle and the signal scored
    disc,           \* a call of find_bitcoin_markets: the response and result
    cyc             \* the entry point in use and its trading-cycle tasks

vars ==
    <<config, daily_trades, paper_trader, store, ret, sel, sc, disc, cyc>>

\* Optional values: None is the empty tuple, Some(v) the one-element tuple.
None == <<>>

Some(v) == <<v>>

Get(o) == o[1]

\* ------------------------------------------------------------------ bounds

\* Most Trade Records a portfolio holds in the model.
MaxTrades == 2

\* TradingConfig.max_daily_trades of the model's configurations (96 by
\* default in the source, any integer >= 1).
MaxDailyTrades == 2

\* Longest list of markets select_best_market is given.
MaxMarkets == 2

\* ------------------------------------------------------- program constants

PAPER_TRADING_INITIAL_BALANCE == 1000

\* TradingConfig.min_score_threshold default, 0.6, in hundredths.
min_score_threshold_default == 60

\* ------------------------------------------------------------- input sets

TradingMode == {"paper", "live"}

\* Direction enum of scoring.py.
Direction == {"UP", "DOWN", "NEUTRAL"}

\* trade_amount_usd values a configuration of the model sets (1 <= a <= 10000).
AmountSet == {100, 500}

\* Token prices, in hundredths, a parsed market carries (0 is float("0")).
PriceSet == {0, 40}

\* Prices, in hundredths, _parse_market makes of the strings of a raw entry:
\* float("-0.5"), float("0"), float("0.4").
ParsedPrices == {0 - 50, 0, 40}

\* amount arguments of execute_trade called directly.
StakeSet == {100, 500}

\* Signal confidences, in hundredths.
ConfidenceSet == {59, 60, 61}

\* exit_price arguments of settle_trade, in hundredths (1.0 is the default).
ExitPriceSet == {100}

\* Readings of datetime.utcnow().
Times == {1}

\* Errors place_market_order raises.
VenueErrors == {"order rejected", "not authenticated"}

\* BitcoinMarket, reduced to the fields execute reads.  The price 0 is
\* given to the YES token only: what a price of 0 does to a trade does not
\* depend on the token bought.
Markets ==
    {m \in [yes_token_id : {"yes_token"}, no_token_id : {"no_token"},
            current_yes_price : PriceSet, current_no_price : PriceSet] :
        m.current_no_price # 0}

\* SignalScore, reduced to the fields execute reads.
Signals == [direction : Direction, confidence : ConfidenceSet]

\* Trade ids settle_trade is called with: every id in use and one that is not.
TradeIds == 1 .. (MaxTrades + 1)

Configs ==
    [mode : TradingMode,
     trade_amount_usd : AmountSet,
     max_daily_trades : {MaxDailyTrades},
     min_score_threshold : {min_score_threshold_default}]

\* ------------------------------------------------------------- PaperTrade

\* PaperTrade(...) as execute_trade constructs it: the dataclass defaults
\* give status OPEN and no exit price, pnl or settlement time.
PaperTrade(id, timestamp, direction, prediction, amount, price, token_id) ==
    [id |-> id,
     timestamp |-> timestamp,
     direction |-> direction,
     prediction |-> prediction,
     amount_usd |-> amount,
     entry_price |-> price,
     token_id |-> token_id,
     status |-> "OPEN",
     exit_price |-> None,
     pnl |-> None,
     settled_at |-> None]

\* datetime.isoformat() of a clock reading.
isoformat(t) == <<"iso", t>>

\* PaperTrade.to_dict
PaperTrade_to_dict(t) ==
    [id |-> t.id,
     timestamp |-> isoformat(t.timestamp),
     direction |-> t.direction,
     prediction |-> t.prediction,
     amount_usd |-> t.amount_usd,
     entry_price |-> t.entry_price,
     token_id |-> t.token_id,
     status |-> t.status,
     exit_price |-> t.exit_price,
     pnl |-> t.pnl,
     settled_at |-> IF t.settled_at # None THEN Some(isoformat(Get(t.settled_at))) ELSE None]

\* datetime.fromisoformat of a string isoformat made.
fromisoformat(s) == s[2]

\* Direction(value): the member of the enum with that value.
DirectionOf(value) == CHOOSE d \in Direction : d = value

\* PaperTrade_from_dict with "pnl" not read: the field keeps its default.
PaperTrade_from_dict_no_pnl(data) ==
    [id |-> data.id,
     timestamp |-> fromisoformat(data.timestamp),
     direction |-> data.direction,
     prediction |-> DirectionOf(data.prediction),
     amount_usd |-> data.amount_usd,
     entry_price |-> data.entry_price,
     token_id |-> data.token_id,
     status |-> data.status,
     exit_price |-> data.exit_price,
     pnl |-> None,
     settled_at |-> IF data.settled_at # None
                    THEN Some(fromisoformat(Get(data.settled_at)))
                    ELSE None]

\* PaperTrade.from_dict
PaperTrade_from_dict(data) ==
    [id |-> data.id,
     timestamp |-> fromisoformat(data.timestamp),
     direction |-> data.direction,
     prediction |-> DirectionOf(data.prediction),
     amount_usd |-> data.amount_usd,
     entry_price |-> data.entry_price,
     token_id |-> data.token_id,
     status |-> data.status,
     exit_price |-> data.exit_price,
     pnl |-> data.pnl,
     settled_at |-> IF data.settled_at # None
                    THEN Some(fromisoformat(Get(data.settled_at)))
                    ELSE None]

\* PaperPortfolio.from_dict
PaperPortfolio_from_dict(data) ==
    [initial_balance |-> data.initial_balance,
     current_balance |-> data.current_balance,
     trades |-> [i \in 1 .. Len(data.trades) |->
                    PaperTrade_from_dict(data.trades[i])]]

\* PaperPortfolio.to_dict
PaperPortfolio_to_dict(p) ==
    [initial_balance |-> p.initial_balance,
     current_balance |-> p.current_balance,
     trades |-> [i \in 1 .. Len(p.trades) |-> PaperTrade_to_dict(p.trades[i])]]

\* PaperTrader._save_portfolio: json.dump of portfolio.to_dict() to save_path.
save_portfolio(p) == Some(PaperPortfolio_to_dict(p))

\* PaperPortfolio(initial_balance, current_balance) with no trades.
PaperPortfolio(initial_balance) ==
    [initial_balance |-> initial_balance,
     current_balance |-> initial_balance,
     trades |-> <<>>]

\* PaperTrader.__init__ when no file exists at save_path.
PaperTrader(initial_balance) ==
    [portfolio |-> PaperPortfolio(initial_balance),
     trade_counter |-> 0]

\* PaperTrader._load_or_create_portfolio: the portfolio read from the file at
\* save_path; a new one of initial_balance when there is no file.  (json.dump
\* and json.load carry a dict of strings, floats and nulls unchanged.)
load_or_create_portfolio(file, initial_balance) ==
    IF file # None
    THEN PaperPortfolio_from_dict(Get(file))
    ELSE PaperPortfolio(initial_balance)

\* PaperTrader_at with the trade counter started at 0 whatever was loaded.
PaperTrader_at_counter_zero(file, initial_balance) ==
    [portfolio |-> load_or_create_portfolio(file, initial_balance),
     trade_counter |-> 0]

\* PaperTrader.__init__ with the file at save_path: the portfolio is loaded
\* or created, and the trade counter is the number of trades loaded.
PaperTrader_at(file, initial_balance) ==
    LET p == load_or_create_portfolio(file, initial_balance)
    IN  [portfolio |-> p, trade_counter |-> Len(p.trades)]

\* ------------------------------------------------------------ PaperTrader

\* An operation of PaperTrader, as a function of the object pt and of the
\* file: the object and the file afterwards, what was returned (the trade
\* created, for execute_trade) and the exception raised, if any.
Outcome(pt, file, value, raised) ==
    [paper_trader |-> pt, store |-> file, value |-> value, raised |-> raised]

\* execute_trade refusing a stake equal to the balance (>= for >).
execute_trade_ge(pt, file, direction, amount, current_price, token_id, now) ==
    IF amount >= pt.portfolio.current_balance
    THEN Outcome(pt, file, None, Some("Insufficient balance"))
    ELSE LET outcome == IF direction = "UP" THEN "YES" ELSE "NO"
             n == pt.trade_counter + 1
             trade == PaperTrade(n, now, outcome, direction, amount,
                                 current_price, token_id)
             p == [pt.portfolio EXCEPT
                      !.current_balance = @ - amount,
                      !.trades = Append(@, trade)]
         IN  Outcome([portfolio |-> p, trade_counter |-> n],
                     save_portfolio(p), Some(trade), None)

\* PaperTrader.execute_trade
execute_trade(pt, file, direction, amount, current_price, token_id, now) ==
    IF amount > pt.portfolio.current_balance
    THEN Outcome(pt, file, None, Some("Insufficient balance"))
    ELSE LET outcome == IF direction = "UP" THEN "YES" ELSE "NO"
             n == pt.trade_counter + 1
             trade == PaperTrade(n, now, outcome, direction, amount,
                                 current_price, token_id)
             p == [pt.portfolio EXCEPT
                      !.current_balance = @ - amount,
                      !.trades = Append(@, trade)]
         IN  Outcome([portfolio |-> p, trade_counter |-> n],
                     save_portfolio(p), Some(trade), None)

\* next((t for t in trades if t.id == trade_id), None), as an index: the
\* first trade with that id, 0 when there is none.
find_trade(trades, trade_id) ==
    LET hits == {i \in 1 .. Len(trades) : trades[i].id = trade_id}
    IN  IF hits = {} THEN 0
        ELSE CHOOSE i \in hits : \A j \in hits : i <= j

\* already_settled with the test "trade.status == 'WON'": a LOST trade
\* passes for unsettled.
already_settled_won_only(trade) == trade.status = "WON"

\* The test "trade.status != 'OPEN'" of settle_trade: the trade is settled.
already_settled(trade) == trade.status # "OPEN"

\* trade_pnl with a loser's pnl left at 0.
trade_pnl_loser_zero(won, amount_usd, entry_price) ==
    IF won
    THEN ((amount_usd * 100) \div entry_price) - amount_usd
    ELSE 0

\* The pnl settle_trade computes for an entry price other than 0: a winner
\* gets $1 per share, shares = amount_usd / entry_price; a loser loses the
\* stake.
trade_pnl(won, amount_usd, entry_price) ==
    IF won
    THEN LET shares == (amount_usd * 100) \div entry_price
             payout == shares
         IN  payout - amount_usd
    ELSE 0 - amount_usd

\* balance_credit crediting the pnl alone, the stake not returned.
balance_credit_pnl_only(amount_usd, pnl) == pnl

\* What settle_trade adds to current_balance.
balance_credit(amount_usd, pnl) == amount_usd + pnl

\* PaperTrader.settle_trade.  An unknown id and a settled trade log a
\* warning and return.  Otherwise the exit price and the settlement time
\* are written first; amount_usd / entry_price raises ZeroDivisionError for
\* an entry price of 0, before pnl, status, balance and file are touched.
\* The value of the outcome is the warning logged, if any.
settle_trade(pt, file, trade_id, won, exit_price, now) ==
    LET trades == pt.portfolio.trades
        i == find_trade(trades, trade_id)
    IN  IF i = 0 THEN Outcome(pt, file, Some("not found"), None)
        ELSE IF already_settled(trades[i])
             THEN Outcome(pt, file, Some("already settled"), None)
        ELSE
          LET t1 == [trades[i] EXCEPT
                        !.exit_price = Some(exit_price),
                        !.settled_at = Some(now)]
          IN  IF won /\ t1.entry_price = 0
              THEN Outcome([pt EXCEPT !.portfolio.trades[i] = t1], file,
                           None, Some("ZeroDivisionError"))
              ELSE
                LET pnl == trade_pnl(won, t1.amount_usd, t1.entry_price)
                    t2 == [t1 EXCEPT
                              !.pnl = Some(pnl),
                              !.status = IF won THEN "WON" ELSE "LOST"]
                    p == [pt.portfolio EXCEPT
                             !.trades[i] = t2,
                             !.current_balance =
                                 @ + balance_credit(t2.amount_usd, pnl)]
                IN  Outcome([pt EXCEPT !.portfolio = p], save_portfolio(p),
                            None, None)

\* ---------------------------------------------------------- TradeExecutor

\* gate skipping a confidence equal to the threshold (<= for <).
gate_le(cfg, daily, signal) ==
    IF signal.direction = "NEUTRAL" THEN Some("neutral_signal")
    ELSE IF signal.confidence <= cfg.min_score_threshold
         THEN Some("low_confidence")
    ELSE IF daily >= cfg.max_daily_trades THEN Some("daily_limit_reached")
    ELSE None

\* gate letting one trade more through (> for >= on the daily counter).
gate_daily_gt(cfg, daily, signal) ==
    IF signal.direction = "NEUTRAL" THEN Some("neutral_signal")
    ELSE IF signal.confidence < cfg.min_score_threshold
         THEN Some("low_confidence")
    ELSE IF daily > cfg.max_daily_trades THEN Some("daily_limit_reached")
    ELSE None

\* The gates of TradeExecutor.execute, in the order of the code: the reason
\* of the first gate that fails, None when all three pass.
gate(cfg, daily, signal) ==
    IF signal.direction = "NEUTRAL" THEN Some("neutral_signal")
    ELSE IF signal.confidence < cfg.min_score_threshold
         THEN Some("low_confidence")
    ELSE IF daily >= cfg.max_daily_trades THEN Some("daily_limit_reached")
    ELSE None

\* target buying the NO token at the YES price.
target_yes_price(market, signal) ==
    IF signal.direction = "UP"
    THEN [token_id |-> market.yes_token_id, outcome |-> "YES",
          price |-> market.current_yes_price]
    ELSE [token_id |-> market.no_token_id, outcome |-> "NO",
          price |-> market.current_yes_price]

\* The token execute buys: [token_id, outcome, price].
target(market, signal) ==
    IF signal.direction = "UP"
    THEN [token_id |-> market.yes_token_id, outcome |-> "YES",
          price |-> market.current_yes_price]
    ELSE [token_id |-> market.no_token_id, outcome |-> "NO",
          price |-> market.current_no_price]

\* A result dict of execute: status, the reason of a skip or the error of a
\* failure, and the id of the trade created.
Result(status, detail, trade_id) ==
    [status |-> status, detail |-> detail, trade_id |-> trade_id,
     raised |-> None]

\* A call that returned None (settle_trade, reset_daily_counter), with the
\* warning it logged, or that raised the exception named.
Returned(warning, raised) ==
    [status |-> None, detail |-> warning, trade_id |-> None,
     raised |-> raised]

\* TradeExecutor._execute_paper: what it does to the paper trader and the
\* file, and the result dict.  It raises ValueError when there is no paper
\* trader; ValueError from execute_trade is caught and reported as FAILED.
execute_paper(pt_opt, file, signal, tgt, amount, now) ==
    IF pt_opt = None
    THEN [paper_trader |-> pt_opt, store |-> file,
          ret |-> Returned(None, Some("ValueError"))]
    ELSE LET o == execute_trade(Get(pt_opt), file, signal.direction, amount,
                                tgt.price, tgt.token_id, now)
         IN  [paper_trader |-> Some(o.paper_trader), store |-> o.store,
              ret |-> IF o.raised = None
                      THEN Result(Some("EXECUTED"), None,
                                  Some(Get(o.value).id))
                      ELSE Result(Some("FAILED"), o.raised, None)]

\* _execute_live without its except clause: the venue's error propagates.
execute_live_uncaught(venue) ==
    IF venue = None THEN Result(Some("EXECUTED"), None, None)
    ELSE Returned(None, venue)

\* TradeExecutor._execute_live: venue is None when place_market_order
\* returned a response and Some(e) when it raised e.
execute_live(venue) ==
    IF venue = None THEN Result(Some("EXECUTED"), None, None)
    ELSE Result(Some("FAILED"), venue, None)

\* count_trade counting every dispatched order, failed ones too.
count_trade_any(daily, r) ==
    IF r.status \in {Some("EXECUTED"), Some("FAILED")} THEN daily + 1
    ELSE daily

\* The daily counter after execute got result r.
count_trade(daily, r) ==
    IF r.status = Some("EXECUTED") THEN daily + 1 ELSE daily

\* TradeExecutor.execute
execute(cfg, daily, pt_opt, file, market, signal, now, venue) ==
    LET g == gate(cfg, daily, signal)
    IN  IF g # None
        THEN [daily_trades |-> daily, paper_trader |-> pt_opt,
              store |-> file, ret |-> Result(Some("SKIPPED"), g, None)]
        ELSE
          LET tgt == target(market, signal)
              amount == cfg.trade_amount_usd
              r == IF cfg.mode = "paper"
                   THEN execute_paper(pt_opt, file, signal, tgt, amount, now)
                   ELSE [paper_trader |-> pt_opt, store |-> file,
                         ret |-> execute_live(venue)]
          IN  [daily_trades |-> IF r.ret.raised = None
                                THEN count_trade(daily, r.ret) ELSE daily,
               paper_trader |-> r.paper_trader,
               store |-> r.store,
               ret |-> r.ret]

\* reset_daily_counter leaving the counter as it is.
reset_daily_counter_noop(daily) == daily

\* TradeExecutor.reset_daily_counter
reset_daily_counter(daily) == 0

\* ----------------------------------------------------- select_best_market
\* Times are whole minutes (0.25 h = 15, 1 h = 60, 4 h = 240, 24 h = 1440);
\* prices and the spread are in hundredths; volume is in dollars.

\* A timezone-aware datetime at minute t.
Aware(t) == [aware |-> TRUE, t |-> t]

\* A naive datetime (no tzinfo) whose wall clock reads minute t: what
\* fromisoformat gives for a string without an offset, and datetime.max.
Naive(t) == [aware |-> FALSE, t |-> t]

\* BitcoinMarket, reduced to the fields select_best_market reads.
SelectorMarket(yes, no, end_date, volume) ==
    [current_yes_price |-> yes, current_no_price |-> no,
     end_date |-> end_date, volume |-> volume]

abs(x) == IF x < 0 THEN 0 - x ELSE x

\* BitcoinMarket.spread
spread(m) == abs((m.current_yes_price + m.current_no_price) - 100)

\* The liquidity part of a market's score; None when the market is skipped.
liquidity_score(s) ==
    IF s < 2 THEN Some(3)
    ELSE IF s < 5 THEN Some(2)
    ELSE IF s < 10 THEN Some(1)
    ELSE None

\* time_score with the first band open at 15 minutes (< for <=).
time_score_open(end_date, now) ==
    IF ~end_date.aware THEN Some(0)
    ELSE LET minutes == end_date.t - now
         IN  IF 15 < minutes /\ minutes <= 60 THEN Some(3)
             ELSE IF 60 < minutes /\ minutes <= 240 THEN Some(2)
             ELSE IF 240 < minutes /\ minutes <= 1440 THEN Some(1)
             ELSE IF minutes <= 0 THEN None
             ELSE Some(0)

\* The time-to-resolution part of a market's score; None when the market is
\* skipped.  now is timezone-aware: subtracting it from a naive end_date
\* raises TypeError, which the except clause swallows, and the market goes
\* on with nothing added.
time_score(end_date, now) ==
    IF ~end_date.aware THEN Some(0)
    ELSE LET minutes == end_date.t - now
         IN  IF 15 <= minutes /\ minutes <= 60 THEN Some(3)
             ELSE IF 60 < minutes /\ minutes <= 240 THEN Some(2)
             ELSE IF 240 < minutes /\ minutes <= 1440 THEN Some(1)
             ELSE IF minutes <= 0 THEN None
             ELSE Some(0)

\* The volume bonus.
volume_bonus(volume) == IF volume > 10000 THEN 1 ELSE 0

\* One pass of the loop body: the score appended for the market, None when
\* the market is skipped (continue).
market_score(m, now) ==
    LET l == liquidity_score(spread(m))
    IN  IF l = None THEN None
        ELSE LET t == time_score(m.end_date, now)
             IN  IF t = None THEN None
                 ELSE Some(Get(l) + Get(t) + volume_bonus(m.volume))

\* scored_markets after the loop: the (score, market) pairs of the markets
\* not skipped, in input order.
RECURSIVE scored_markets(_, _)
scored_markets(markets, now) ==
    IF markets = <<>> THEN <<>>
    ELSE LET sm == market_score(Head(markets), now)
             rest == scored_markets(Tail(markets), now)
         IN  IF sm = None THEN rest
             ELSE <<<<Get(sm), Head(markets)>>>> \o rest

\* max_by_score keeping the last of the maximal pairs.
max_by_score_last(scored) ==
    CHOOSE i \in DOMAIN scored :
        /\ \A j \in DOMAIN scored : scored[j][1] <= scored[i][1]
        /\ \A j \in DOMAIN scored : j > i => scored[j][1] < scored[i][1]

\* max(scored_markets, key=lambda x: x[0]), as an index: Python's max keeps
\* the first of the maximal items.
max_by_score(scored) ==
    CHOOSE i \in DOMAIN scored :
        /\ \A j \in DOMAIN scored : scored[j][1] <= scored[i][1]
        /\ \A j \in DOMAIN scored : j < i => scored[j][1] < scored[i][1]

\* select_best_market, called at time now (datetime.now(timezone.utc)).
select_best_market(markets, now) ==
    IF markets = <<>> THEN None
    ELSE LET scored == scored_markets(markets, now)
         IN  IF scored = <<>> THEN None
             ELSE Some(scored[max_by_score(scored)][2])

\* Resolution times of the markets the selector is given.
SelectorEndDates ==
    {Aware(t) : t \in {0, 15, 16, 60, 61, 240, 241, 1440, 1441}}
        \cup {Naive(0 - 6000), Naive(1000000)}

\* Readings of datetime.now(timezone.utc) in select_best_market.
SelectorNow == {0, 1}

\* Markets the selector is given: every resolution time at spread 0.01,
\* every spread band one hour ahead, and the volume bonus on and off.
SelectorMarkets ==
    {SelectorMarket(50, 51, e, 0) : e \in SelectorEndDates}
        \cup {SelectorMarket(p[1], p[2], Aware(61), 0) :
                p \in {<<50, 52>>, <<50, 54>>, <<50, 45>>, <<41, 50>>,
                       <<50, 60>>, <<45, 45>>, <<50, 61>>}}
        \cup {SelectorMarket(50, 51, Aware(61), v) : v \in {10000, 10001}}

MarketLists == UNION {[1 .. n -> SelectorMarkets] : n \in 0 .. MaxMarkets}

\* No call of select_best_market made.
NoSelection == [markets |-> <<>>, now |-> None, out |-> None]

\* --------------------------------------------------- MultiIndicatorScorer
\* Weights are in thousandths (250 is 0.25).  A weight map of the scorer is
\* kept as its numerators w and one denominator den, the weight of k being
\* w[k] / den; a score is a fraction <<n, d>> with d > 0, not reduced.
\* Indicator readings and prices are the integers the source's floats hold.

\* Signal (IntEnum)
STRONG_SELL == 0 - 2

SELL == 0 - 1

NEUTRAL == 0

BUY == 1

STRONG_BUY == 2

Indicators == {"rsi", "macd", "ema_crossover", "bollinger"}

WeightMap(rsi, macd, ema_crossover, bollinger) ==
    [rsi |-> rsi, macd |-> macd, ema_crossover |-> ema_crossover,
     bollinger |-> bollinger]

\* INDICATOR_WEIGHTS of constants.py
INDICATOR_WEIGHTS == WeightMap(250, 300, 250, 200)

\* sum(weights.values())
weight_sum(w) == w.rsi + w.macd + w.ema_crossover + w.bollinger

\* MultiIndicatorScorer.__init__: the scorer built, or the exception
\* raised.  weights is None or Some(map); the division v / weight_sum
\* raises ZeroDivisionError for a sum of 0.
MultiIndicatorScorer(cfg, weights) ==
    LET w == IF weights = None THEN INDICATOR_WEIGHTS ELSE Get(weights)
        total == weight_sum(w)
    IN  IF abs(total - 1000) > 10
        THEN IF total = 0
             THEN [scorer |-> None, raised |-> Some("ZeroDivisionError")]
             ELSE [scorer |-> Some([config |-> cfg, weights |-> w,
                                    den |-> total]),
                   raised |-> None]
        ELSE [scorer |-> Some([config |-> cfg, weights |-> w, den |-> 1000]),
              raised |-> None]

\* _score_rsi with the oversold bound included (<= for <).
score_rsi_le(cfg, rsi) ==
    IF rsi <= cfg.rsi_oversold THEN STRONG_BUY
    ELSE IF rsi < 40 THEN BUY
    ELSE IF rsi > cfg.rsi_overbought THEN STRONG_SELL
    ELSE IF rsi > 60 THEN SELL
    ELSE NEUTRAL

\* MultiIndicatorScorer._score_rsi
score_rsi(cfg, rsi) ==
    IF rsi < cfg.rsi_oversold THEN STRONG_BUY
    ELSE IF rsi < 40 THEN BUY
    ELSE IF rsi > cfg.rsi_overbought THEN STRONG_SELL
    ELSE IF rsi > 60 THEN SELL
    ELSE NEUTRAL

\* max(Signal.STRONG_SELL, min(Signal.STRONG_BUY, score))
clamp(score) ==
    LET low == IF STRONG_BUY < score THEN STRONG_BUY ELSE score
    IN  IF STRONG_SELL > low THEN STRONG_SELL ELSE low

\* MultiIndicatorScorer._score_macd
score_macd(macd_line, signal_line, histogram) ==
    LET cross == IF macd_line > signal_line THEN 1
                 ELSE IF macd_line < signal_line THEN 0 - 1 ELSE 0
        momentum == IF histogram > 0 THEN 1
                    ELSE IF histogram < 0 THEN 0 - 1 ELSE 0
    IN  clamp(cross + momentum)

\* MultiIndicatorScorer._score_ema_crossover
score_ema_crossover(ema_short, ema_long, current_price) ==
    LET cross == IF ema_short > ema_long THEN 1
                 ELSE IF ema_short < ema_long THEN 0 - 1 ELSE 0
        trend == IF current_price > ema_short /\ ema_short > ema_long THEN 1
                 ELSE IF current_price < ema_short /\ ema_short < ema_long
                      THEN 0 - 1
                 ELSE 0
    IN  clamp(cross + trend)

\* position < tenths / 10, for position = (price - lower) / band_width and
\* band_width # 0.
position_lt(price, lower, band_width, tenths) ==
    IF band_width > 0 THEN 10 * (price - lower) < tenths * band_width
    ELSE 10 * (price - lower) > tenths * band_width

\* position > tenths / 10
position_gt(price, lower, band_width, tenths) ==
    IF band_width > 0 THEN 10 * (price - lower) > tenths * band_width
    ELSE 10 * (price - lower) < tenths * band_width

\* _score_bollinger with the position tests made before the band tests.
score_bollinger_position_first(price, upper, middle, lower) ==
    LET band_width == upper - lower
    IN  IF band_width = 0 THEN NEUTRAL
        ELSE IF position_lt(price, lower, band_width, 3) THEN BUY
        ELSE IF price < lower THEN STRONG_BUY
        ELSE IF position_gt(price, lower, band_width, 7) THEN SELL
        ELSE IF price > upper THEN STRONG_SELL
        ELSE NEUTRAL

\* _score_bollinger following the trend: the band tests give the opposite
\* signals.
score_bollinger_trend(price, upper, middle, lower) ==
    LET band_width == upper - lower
    IN  IF band_width = 0 THEN NEUTRAL
        ELSE IF price < lower THEN STRONG_SELL
        ELSE IF position_lt(price, lower, band_width, 3) THEN SELL
        ELSE IF price > upper THEN STRONG_BUY
        ELSE IF position_gt(price, lower, band_width, 7) THEN BUY
        ELSE NEUTRAL

\* MultiIndicatorScorer._score_bollinger
score_bollinger(price, upper, middle, lower) ==
    LET band_width == upper - lower
    IN  IF band_width = 0 THEN NEUTRAL
        ELSE IF price < lower THEN STRONG_BUY
        ELSE IF position_lt(price, lower, band_width, 3) THEN BUY
        ELSE IF price > upper THEN STRONG_SELL
        ELSE IF position_gt(price, lower, band_width, 7) THEN SELL
        ELSE NEUTRAL

\* sum(signals[ind] * weights[ind] for ind in signals) / 2.0, as a fraction.
normalized_score(signals, scorer) ==
    <<signals.rsi * scorer.weights.rsi
        + signals.macd * scorer.weights.macd
        + signals.ema_crossover * scorer.weights.ema_crossover
        + signals.bollinger * scorer.weights.bollinger,
      2 * scorer.den>>

\* direction_of with the thresholds included (>= 0.1, <= -0.1).
direction_of_ge(score) ==
    IF 10 * score[1] >= score[2] THEN "UP"
    ELSE IF 10 * score[1] <= 0 - score[2] THEN "DOWN"
    ELSE "NEUTRAL"

\* The direction calculate_signal gives a normalized score: above 0.1 UP,
\* below -0.1 DOWN.
direction_of(score) ==
    IF 10 * score[1] > score[2] THEN "UP"
    ELSE IF 10 * score[1] < 0 - score[2] THEN "DOWN"
    ELSE "NEUTRAL"

\* The confidence: min(abs(normalized_score), 1.0), and 0.0 when NEUTRAL.
confidence_of(score, direction) ==
    IF direction = "NEUTRAL" THEN <<0, 1>>
    ELSE IF abs(score[1]) < score[2] THEN <<abs(score[1]), score[2]>>
    ELSE <<1, 1>>

\* MultiIndicatorScorer.calculate_signal: the SignalScore, the reasoning
\* string left out.
calculate_signal(scorer, indicators) ==
    LET signals ==
            [rsi |-> score_rsi(scorer.config, indicators.rsi),
             macd |-> score_macd(indicators.macd_line,
                                 indicators.macd_signal,
                                 indicators.macd_histogram),
             ema_crossover |->
                 score_ema_crossover(indicators.ema_short,
                                     indicators.ema_long,
                                     indicators.current_price),
             bollinger |->
                 score_bollinger(indicators.current_price,
                                 indicators.bb_upper, indicators.bb_middle,
                                 indicators.bb_lower)]
        score == normalized_score(signals, scorer)
        direction == direction_of(score)
    IN  [direction |-> direction,
         confidence |-> confidence_of(score, direction),
         raw_score |-> score,
         indicator_signals |-> signals]

\* IndicatorConfig, reduced to the thresholds the scorer reads.
IndicatorConfig(rsi_oversold, rsi_overbought) ==
    [rsi_oversold |-> rsi_oversold, rsi_overbought |-> rsi_overbought]

\* The default thresholds and a pair with the oversold bound at 40.
IndicatorConfigs == {IndicatorConfig(30, 70), IndicatorConfig(40, 65)}

\* The weights argument of the constructor: none, and maps of non-negative
\* weights summing to 1.005, 1.005 (on one indicator), 0, 2 and 1.
WeightArgs ==
    {None, Some(WeightMap(255, 300, 250, 200)),
     Some(WeightMap(1005, 0, 0, 0)), Some(WeightMap(0, 0, 0, 0)),
     Some(WeightMap(500, 500, 500, 500)),
     Some(WeightMap(100, 200, 300, 400))}

\* IndicatorValues, reduced to the fields the scorer reads; macd is
\* <<line, signal, histogram>>, ema <<short, long>> and band
\* <<upper, middle, lower>>.
IndicatorValues(rsi, macd, ema, band, current_price) ==
    [rsi |-> rsi,
     macd_line |-> macd[1], macd_signal |-> macd[2],
     macd_histogram |-> macd[3],
     ema_short |-> ema[1], ema_long |-> ema[2],
     bb_upper |-> band[1], bb_middle |-> band[2], bb_lower |-> band[3],
     current_price |-> current_price]

RsiSet == {25, 29, 30, 39, 40, 50, 60, 61, 65, 66, 70, 71, 80}

MacdSet == {<<100, 80, 20>>, <<100, 100, 0>>, <<80, 100, 0 - 20>>}

EmaSet == {<<45000, 44500>>, <<45000, 45000>>, <<44500, 45000>>}

\* A band of width 2000 and a degenerate one.
BandSet == {<<46000, 45000, 44000>>, <<45000, 45000, 45000>>}

\* Prices below, on, inside and above the bands: inside the wide band the
\* positions are 0.25, 0.3, 0.5, 0.7 and 0.75.
BundlePrices ==
    {43500, 44000, 44500, 44600, 45000, 45400, 45500, 46000, 47000}

\* The bundles of test_bullish_signal and test_bearish_signal.
BullishBundle ==
    IndicatorValues(25, <<100, 80, 20>>, <<45000, 44500>>,
                    <<46000, 45000, 44000>>, 43500)

BearishBundle ==
    IndicatorValues(80, <<80, 100, 0 - 20>>, <<44500, 45000>>,
                    <<46000, 45000, 44000>>, 47000)

\* Indicator bundles: every RSI reading with the rest neutral, every price
\* against both bands and every EMA pair, and the strong, neutral and weak
\* readings of the four indicators in every combination.
Bundles ==
    {IndicatorValues(r, <<100, 100, 0>>, <<45000, 45000>>,
                     <<46000, 45000, 44000>>, 45000) : r \in RsiSet}
        \cup {IndicatorValues(50, <<100, 100, 0>>, e, b, p) :
                e \in EmaSet, b \in BandSet, p \in BundlePrices}
        \cup {IndicatorValues(r, m, e, <<46000, 45000, 44000>>, p) :
                r \in {25, 50, 80}, m \in MacdSet, e \in EmaSet,
                p \in {43500, 45000, 47000}}

\* No scorer built.
NoScorer ==
    [config |-> None, weights |-> None, indicators |-> None,
     scorer |-> None, raised |-> None, signal |-> None]

\* -------------------------------------------------------- MarketDiscovery

\* Most raw entries a response of the markets endpoint holds in the model.
MaxRaw == 2

\* A string of a raw entry that float() is applied to: kind "num" parses to
\* v (prices in hundredths), "empty" is "", "bad" is a string float() rejects
\* with ValueError.
Str(kind, v) == [kind |-> kind, v |-> v]

\* A JSON value of a raw entry under a key: the key is "missing", the value
\* is "null", or it is a "list" of items / a "str".
Json(kind, items) == [kind |-> kind, items |-> items]

\* A raw market entry of the response, reduced to the keys
\* _is_bitcoin_price_market and _parse_market read for the question, the
\* token ids, the prices and the volume.
RawMarket(conditionId, question, clobTokenIds, outcomePrices, volume) ==
    [conditionId |-> conditionId, question |-> question,
     clobTokenIds |-> clobTokenIds, outcomePrices |-> outcomePrices,
     volume |-> volume]

TwoTokens == Json("list", <<"yes_token", "no_token">>)

GoodPrices == Json("list", <<Str("num", 55), Str("num", 45)>>)

BitcoinQuestion == "Will Bitcoin price exceed 100k?"

\* The raw entries of the model: two well-formed Bitcoin markets, a market
\* about something else, and Bitcoin markets each with one field off.
RawMarkets ==
    {RawMarket("good", BitcoinQuestion, TwoTokens, GoodPrices,
               Json("str", <<Str("num", 1000)>>)),
     RawMarket("good_big", BitcoinQuestion, TwoTokens, GoodPrices,
               Json("str", <<Str("num", 5000)>>)),
     RawMarket("other", "Who wins the election?", TwoTokens, GoodPrices,
               Json("str", <<Str("num", 9000)>>)),
     RawMarket("one_token", BitcoinQuestion, Json("list", <<"yes_token">>),
               GoodPrices, Json("str", <<Str("num", 1000)>>)),
     RawMarket("no_tokens", BitcoinQuestion, Json("missing", <<>>),
               GoodPrices, Json("str", <<Str("num", 1000)>>)),
     RawMarket("null_tokens", BitcoinQuestion, Json("null", <<>>),
               GoodPrices, Json("str", <<Str("num", 1000)>>)),
     RawMarket("no_prices", BitcoinQuestion, TwoTokens,
               Json("missing", <<>>), Json("str", <<Str("num", 2000)>>)),
     RawMarket("empty_price", BitcoinQuestion, TwoTokens,
               Json("list", <<Str("empty", 0), Str("num", 45)>>),
               Json("str", <<Str("num", 1000)>>)),
     RawMarket("bad_price", BitcoinQuestion, TwoTokens,
               Json("list", <<Str("bad", 0), Str("num", 45)>>),
               Json("str", <<Str("num", 1000)>>)),
     RawMarket("null_prices", BitcoinQuestion, TwoTokens,
               Json("null", <<>>), Json("str", <<Str("num", 1000)>>)),
     RawMarket("bad_volume", BitcoinQuestion, TwoTokens, GoodPrices,
               Json("str", <<Str("bad", 0)>>)),
     RawMarket("no_volume", BitcoinQuestion, TwoTokens, GoodPrices,
               Json("missing", <<>>))}

\* MarketDiscovery._is_bitcoin_price_market: the text holds a Bitcoin
\* keyword or tag and a price keyword.
is_bitcoin_price_market(market) == market.question = BitcoinQuestion

\* market.get(key, []) for a key whose value is a list: the default for a
\* missing key.  A null is returned as it is.
get_list(json) == IF json.kind = "missing" THEN Json("list", <<>>) ELSE json

\* What a step of _parse_market comes to: a value, or the exception raised.
Parsed(value, raised) == [value |-> value, raised |-> raised]

\* float(s) for a non-empty string s.
float(s) ==
    IF s.kind = "num" THEN Parsed(Some(s.v), None)
    ELSE Parsed(None, Some("ValueError"))

\* "float(x) if x else 0.5" for an item x of outcomePrices.
outcome_price(s) ==
    IF s.kind = "empty" THEN Parsed(Some(50), None) ELSE float(s)

\* float(market.get("volume", 0) or 0)
volume_of(json) ==
    IF json.kind \in {"missing", "null"} THEN Parsed(Some(0), None)
    ELSE IF json.items[1].kind = "empty" THEN Parsed(Some(0), None)
    ELSE float(json.items[1])

\* BitcoinMarket as _parse_market builds it, reduced to the fields above.
BitcoinMarket(market, tokens, yes_price, no_price, volume) ==
    [condition_id |-> market.conditionId,
     yes_token_id |-> tokens[1], no_token_id |-> tokens[2],
     current_yes_price |-> yes_price, current_no_price |-> no_price,
     volume |-> volume]

\* MarketDiscovery._parse_market: the BitcoinMarket, None for an entry with
\* fewer than two token ids or one that raised KeyError, ValueError or
\* IndexError; len(None) raises TypeError, which is not caught.  Prices
\* default to 0.5 when fewer than two are given and for an empty item.
parse_market(market) ==
    LET tokens == get_list(market.clobTokenIds)
        prices == get_list(market.outcomePrices)
    IN  IF tokens.kind = "null" THEN Parsed(None, Some("TypeError"))
        ELSE IF Len(tokens.items) < 2 THEN Parsed(None, None)
        ELSE IF prices.kind = "null" THEN Parsed(None, Some("TypeError"))
        ELSE
          LET yes == IF Len(prices.items) < 2 THEN Parsed(Some(50), None)
                     ELSE outcome_price(prices.items[1])
              no == IF Len(prices.items) < 2 THEN Parsed(Some(50), None)
                    ELSE outcome_price(prices.items[2])
              volume == volume_of(market.volume)
          IN  IF yes.raised # None \/ no.raised # None
                     \/ volume.raised # None
              THEN Parsed(None, None)
              ELSE Parsed(Some(BitcoinMarket(market, tokens.items,
                                             Get(yes.value), Get(no.value),
                                             Get(volume.value))), None)

\* The loop of find_bitcoin_markets over markets_data: the markets parsed,
\* in order, or the exception that left the loop.
RECURSIVE parse_all(_)
parse_all(markets_data) ==
    IF markets_data = <<>> THEN Parsed(Some(<<>>), None)
    ELSE LET market == Head(markets_data)
             parsed == IF is_bitcoin_price_market(market)
                       THEN parse_market(market)
                       ELSE Parsed(None, None)
         IN  IF parsed.raised # None THEN Parsed(None, parsed.raised)
             ELSE LET rest == parse_all(Tail(markets_data))
                  IN  IF rest.raised # None THEN rest
                      ELSE IF parsed.value = None THEN rest
                      ELSE Parsed(Some(<<Get(parsed.value)>>
                                           \o Get(rest.value)), None)

\* m inserted into a list sorted by volume, descending, after the markets
\* of the same volume.
RECURSIVE insert_by_volume(_, _)
insert_by_volume(m, sorted) ==
    IF sorted = <<>> THEN <<m>>
    ELSE IF Head(sorted).volume >= m.volume
         THEN <<Head(sorted)>> \o insert_by_volume(m, Tail(sorted))
         ELSE <<m>> \o sorted

\* btc_markets.sort(key=lambda m: m.volume, reverse=True): stable.
RECURSIVE sort_by_volume(_)
sort_by_volume(markets) ==
    IF markets = <<>> THEN <<>>
    ELSE insert_by_volume(markets[Len(markets)],
                          sort_by_volume(SubSeq(markets, 1,
                                                Len(markets) - 1)))

\* MarketDiscovery.find_bitcoin_markets for a response of the given status
\* and body: raise_for_status, the loop, the sort.
find_bitcoin_markets(status, markets_data) ==
    IF status >= 400 THEN Parsed(None, Some("HTTPStatusError"))
    ELSE LET parsed == parse_all(markets_data)
         IN  IF parsed.raised # None THEN parsed
             ELSE Parsed(Some(sort_by_volume(Get(parsed.value))), None)

\* Response bodies: lists of raw entries.
RawLists ==
    UNION {[1 .. n -> RawMarkets] : n \in 0 .. MaxRaw}

\* HTTP status codes of the response.
StatusCodes == {200, 500}

\* No discovery made.
NoDiscovery ==
    [status |-> None, markets_data |-> None, out |-> None, raised |-> None]

\* --------------------------------------------------------- trading cycle

\* Most run-once requests of the dashboard in progress at a time.
MaxRunOnce == 1

\* The entry points: TradingBot.run_async with JobScheduler ("main") and
\* the dashboard of web/app.py ("web").
Apps == {"main", "web"}

\* The tasks that run a trading cycle.  Under the scheduler: the task
\* start() creates when run_immediately is set, and the one instance of the
\* job "trading_cycle" (max_instances = 1).  Under the dashboard: the task
\* of trading_loop, and one task per run-once request.
Immediate == <<"immediate", 0>>

Timer == <<"timer", 0>>

Loop == <<"loop", 0>>

Once(k) == <<"once", k>>

Tasks(app) ==
    IF app = "main" THEN {Immediate, Timer}
    ELSE {Loop} \cup {Once(k) : k \in 1 .. MaxRunOnce}

\* Where a task is.  "free": no such task; "ready": the task exists and is
\* not in a cycle (created and not yet run, or trading_loop asleep between
\* cycles).  In a cycle a task is suspended at an await: "price" (web: the
\* broadcast after the candle fetch), "discovery" (the broadcast of the
\* signal, web, and find_bitcoin_markets), "report" (web: the broadcasts
\* after selection and execution).
Task(pc, signal) == [pc |-> pc, signal |-> signal]

FreeTask == Task("free", None)

ReadyTask == Task("ready", None)

InCycle == {"price", "discovery", "report"}

\* The task after its cycle has ended: trading_loop goes to sleep, the
\* other tasks are over.
ended(t) == IF t = Loop THEN ReadyTask ELSE FreeTask

\* The market select_best_market returns in a cycle of the model: both
\* prices 0.50, spread 0.
CycleMarkets ==
    {[yes_token_id |-> "yes_token", no_token_id |-> "no_token",
      current_yes_price |-> 50, current_no_price |-> 50]}

\* The signals calculate_signal returns in a cycle of the model.
CycleSignals ==
    {[direction |-> "UP", confidence |-> 61],
     [direction |-> "NEUTRAL", confidence |-> 61]}

\* What the part of a cycle before the scoring is over comes to: the
\* exception of the step that failed, or nothing.
FetchOutcomes == {None, Some("candle fetch failed")}

ScoreOutcomes ==
    {Some("indicator computation failed"), Some("scoring failed")}

\* What discovery and selection come to: an exception, no markets, no
\* suitable market, or the market selected.
SelectionOutcomes ==
    {"discovery failed", "no_markets", "no_suitable_market", "selected"}

\* What a cycle reports when it ends without calling execute: the "ERROR"
\* of the except clause with the failure, or the reason of the skip.
CycleEnd(status, detail) == Result(Some(status), Some(detail), None)

\* No entry point in use.
NoCycles == [app |-> "none", is_running |-> FALSE, tasks |-> <<>>]

\* ---------------------------------------------------------------- actions

\* TradingBot._init_components / BotState.initialize: a paper trader exists
\* in paper mode only; the executor starts with a daily counter of 0.
Init ==
    /\ config \in Configs
    /\ daily_trades = 0
    /\ paper_trader = IF config.mode = "paper"
                      THEN Some(PaperTrader(PAPER_TRADING_INITIAL_BALANCE))
                      ELSE None
    /\ store = None
    /\ ret = Returned(None, None)
    /\ sel = NoSelection
    /\ sc = NoScorer
    /\ disc = NoDiscovery
    /\ cyc = NoCycles

\* execute applied to the current state.
ExecuteResult(market, signal, now, venue) ==
    execute(config, daily_trades, paper_trader, store, market, signal, now,
            venue)

\* settle_trade applied to the current state (paper mode).
SettleResult(trade_id, won, exit_price, now) ==
    settle_trade(Get(paper_trader), store, trade_id, won, exit_price, now)

\* A call executor.execute(market, signal, btc_price).  The model stops
\* creating trades at MaxTrades records.
Execute(market, signal, now, venue) ==
    /\ LET r == ExecuteResult(market, signal, now, venue)
       IN  /\ r.paper_trader # None =>
                  Len(Get(r.paper_trader).portfolio.trades) <= MaxTrades
           /\ daily_trades' = r.daily_trades
           /\ paper_trader' = r.paper_trader
           /\ store' = r.store
           /\ ret' = r.ret
    /\ UNCHANGED <<config, sel, sc, disc, cyc>>

\* A call paper_trader.settle_trade(trade_id, won, exit_price).
SettleTrade(trade_id, won, exit_price, now) ==
    /\ paper_trader # None
    /\ LET o == SettleResult(trade_id, won, exit_price, now)
       IN  /\ paper_trader' = Some(o.paper_trader)
           /\ store' = o.store
           /\ ret' = Returned(o.value, o.raised)
    /\ UNCHANGED <<config, daily_trades, sel, sc, disc, cyc>>

\* A call executor.reset_daily_counter() (the midnight job).
ResetDailyCounter ==
    /\ daily_trades' = reset_daily_counter(daily_trades)
    /\ ret' = Returned(None, None)
    /\ UNCHANGED <<config, paper_trader, store, sel, sc, disc, cyc>>

VenueOutcomes == {None} \cup {Some(e) : e \in VenueErrors}

Next ==
    \/ \E market \in Markets, signal \in Signals, now \in Times,
          venue \in VenueOutcomes :
            /\ config.mode = "paper" => venue = None
            /\ Execute(market, signal, now, venue)
    \/ \E trade_id \in TradeIds, won \in BOOLEAN,
          exit_price \in ExitPriceSet, now \in Times :
            SettleTrade(trade_id, won, exit_price, now)
    \/ ResetDailyCounter

Spec == Init /\ [][Next]_vars

\* The executor of a specification that does not trade: live mode, nothing
\* done yet.
IdleExecutor ==
    /\ config = [mode |-> "live", trade_amount_usd |-> 100,
                 max_daily_trades |-> MaxDailyTrades,
                 min_score_threshold |-> min_score_threshold_default]
    /\ daily_trades = 0
    /\ paper_trader = None
    /\ store = None
    /\ ret = Returned(None, None)

\* A list of markets has been discovered; select_best_market is yet to be
\* called with it.
SelectInit ==
    /\ IdleExecutor
    /\ sel \in {[markets |-> ms, now |-> None, out |-> None] :
                    ms \in MarketLists}
    /\ sc = NoScorer
    /\ disc = NoDiscovery
    /\ cyc = NoCycles

\* The call select_best_market(markets) of the trading cycle, made at now.
SelectBestMarket(now) ==
    /\ sel.now = None
    /\ sel' = [sel EXCEPT !.now = Some(now),
                          !.out = select_best_market(sel.markets, now)]
    /\ UNCHANGED <<config, daily_trades, paper_trader, store, ret, sc,
                 disc, cyc>>

SelectNext == \E now \in SelectorNow : SelectBestMarket(now)

SelectSpec == SelectInit /\ [][SelectNext]_vars

\* The configuration and the weights are read, and a bundle of indicator
\* values is at hand; no scorer is built yet.
ScoreInit ==
    /\ IdleExecutor
    /\ sel = NoSelection
    /\ disc = NoDiscovery
    /\ cyc = NoCycles
    /\ sc \in {[config |-> c, weights |-> w, indicators |-> i,
                 scorer |-> None, raised |-> None, signal |-> None] :
                    c \in IndicatorConfigs, w \in WeightArgs, i \in Bundles}

\* MultiIndicatorScorer(config, weights)
Construct ==
    /\ sc.scorer = None /\ sc.raised = None
    /\ LET o == MultiIndicatorScorer(sc.config, sc.weights)
       IN  sc' = [sc EXCEPT !.scorer = o.scorer, !.raised = o.raised]
    /\ UNCHANGED <<config, daily_trades, paper_trader, store, ret, sel,
                 disc, cyc>>

\* scorer.calculate_signal(indicators)
CalculateSignal ==
    /\ sc.scorer # None /\ sc.signal = None
    /\ sc' = [sc EXCEPT
                 !.signal = Some(calculate_signal(Get(sc.scorer),
                                                  sc.indicators))]
    /\ UNCHANGED <<config, daily_trades, paper_trader, store, ret, sel,
                 disc, cyc>>

ScoreNext == Construct \/ CalculateSignal

ScoreSpec == ScoreInit /\ [][ScoreNext]_vars

\* The paper trader used on its own: execute_trade and settle_trade called
\* directly, and a new PaperTrader built on the same file.  The calls of the
\* model all predict UP: the direction is only copied into the record.
PaperInit ==
    /\ config = [mode |-> "paper", trade_amount_usd |-> 100,
                 max_daily_trades |-> MaxDailyTrades,
                 min_score_threshold |-> min_score_threshold_default]
    /\ daily_trades = 0
    /\ paper_trader = Some(PaperTrader(PAPER_TRADING_INITIAL_BALANCE))
    /\ store = None
    /\ ret = Returned(None, None)
    /\ sel = NoSelection
    /\ sc = NoScorer
    /\ disc = NoDiscovery
    /\ cyc = NoCycles

\* A call paper_trader.execute_trade(question, direction, amount,
\* current_price, token_id, btc_price): it returns the trade, whose id is
\* kept, or raises ValueError.
ExecuteTrade(direction, amount, current_price, token_id, now) ==
    /\ LET o == execute_trade(Get(paper_trader), store, direction, amount,
                              current_price, token_id, now)
       IN  /\ Len(o.paper_trader.portfolio.trades) <= MaxTrades
           /\ paper_trader' = Some(o.paper_trader)
           /\ store' = o.store
           /\ ret' = [status |-> None, detail |-> None,
                      trade_id |-> IF o.value = None THEN None
                                   ELSE Some(Get(o.value).id),
                      raised |-> o.raised]
    /\ UNCHANGED <<config, daily_trades, sel, sc, disc, cyc>>

\* The process is started again: PaperTrader(initial_balance, save_path)
\* on the file the previous one left.
Restart ==
    /\ paper_trader' = Some(PaperTrader_at(store,
                                           PAPER_TRADING_INITIAL_BALANCE))
    /\ ret' = Returned(None, None)
    /\ UNCHANGED <<config, daily_trades, store, sel, sc, disc, cyc>>

PaperNext ==
    \/ \E amount \in StakeSet, current_price \in ParsedPrices,
          now \in Times :
            ExecuteTrade("UP", amount, current_price, "token_1", now)
    \/ \E trade_id \in TradeIds, won \in BOOLEAN,
          exit_price \in ExitPriceSet, now \in Times :
            SettleTrade(trade_id, won, exit_price, now)
    \/ Restart

PaperSpec == PaperInit /\ [][PaperNext]_vars

\* A response of the markets endpoint has arrived; find_bitcoin_markets is
\* yet to go through it.
DiscoveryInit ==
    /\ IdleExecutor
    /\ sel = NoSelection
    /\ sc = NoScorer
    /\ cyc = NoCycles
    /\ disc \in {[status |-> Some(st), markets_data |-> Some(ms),
                  out |-> None, raised |-> None] :
                    st \in StatusCodes, ms \in RawLists}

\* find_bitcoin_markets from the response on.
FindBitcoinMarkets ==
    /\ disc.out = None /\ disc.raised = None
    /\ LET r == find_bitcoin_markets(Get(disc.status),
                                     Get(disc.markets_data))
       IN  disc' = [disc EXCEPT !.out = r.value, !.raised = r.raised]
    /\ UNCHANGED <<config, daily_trades, paper_trader, store, ret, sel, sc,
                 cyc>>

DiscoveryNext == FindBitcoinMarkets

DiscoverySpec == DiscoveryInit /\ [][DiscoveryNext]_vars

\* One of the entry points is up: the components are built, nothing is
\* started.  The configurations of the model stake 500.
CycleInit ==
    /\ config \in {c \in Configs : c.trade_amount_usd = 500}
    /\ daily_trades = 0
    /\ paper_trader = IF config.mode = "paper"
                      THEN Some(PaperTrader(PAPER_TRADING_INITIAL_BALANCE))
                      ELSE None
    /\ store = None
    /\ ret = Returned(None, None)
    /\ sel = NoSelection
    /\ sc = NoScorer
    /\ disc = NoDiscovery
    /\ cyc \in {[app |-> app, is_running |-> FALSE,
                 tasks |-> [t \in Tasks(app) |-> FreeTask]] : app \in Apps}

\* The trading state, which only the execution step of a cycle changes.
UnchangedTrading == UNCHANGED <<daily_trades, paper_trader, store>>

UnchangedOthers == UNCHANGED <<config, sel, sc, disc>>

\* JobScheduler.start(trading_job, run_immediately=True): the job is added,
\* and the first cycle is a task of its own, outside the scheduler.
SchedulerStart ==
    /\ cyc.app = "main" /\ ~cyc.is_running
    /\ cyc' = [cyc EXCEPT !.is_running = TRUE,
                          !.tasks[Immediate] = ReadyTask]
    /\ UNCHANGED ret
    /\ UnchangedTrading /\ UnchangedOthers

\* POST /api/start: start_bot creates the task of trading_loop.
StartBot ==
    /\ cyc.app = "web" /\ ~cyc.is_running
    /\ cyc' = [cyc EXCEPT !.is_running = TRUE, !.tasks[Loop] = ReadyTask]
    /\ UNCHANGED ret
    /\ UnchangedTrading /\ UnchangedOthers

\* POST /api/stop: stop_bot cancels the task of trading_loop; the task gets
\* CancelledError at the await it is suspended at, which no except clause
\* of the cycle or of the loop catches.
StopBot ==
    /\ cyc.app = "web" /\ cyc.is_running
    /\ cyc' = [cyc EXCEPT !.is_running = FALSE, !.tasks[Loop] = FreeTask]
    /\ ret' = IF cyc.tasks[Loop].pc \in InCycle
              THEN CycleEnd("CANCELLED", "stop_bot")
              ELSE ret
    /\ UnchangedTrading /\ UnchangedOthers

\* The start of a cycle by task t, up to its first await.  Under the
\* scheduler the candle fetch, the indicators and the scoring run in one
\* go; under the dashboard the fetch alone.
BeginCycle(t, failure, signal) ==
    /\ IF failure # None
       THEN /\ cyc' = [cyc EXCEPT !.tasks[t] = ended(t)]
            /\ ret' = CycleEnd("ERROR", Get(failure))
       ELSE /\ cyc' = [cyc EXCEPT !.tasks[t] =
                           IF cyc.app = "main"
                           THEN Task("discovery", Some(signal))
                           ELSE Task("price", None)]
            /\ UNCHANGED ret
    /\ UnchangedTrading /\ UnchangedOthers

\* The task start() created runs trading_job.
ImmediateCycle(failure, signal) ==
    /\ cyc.app = "main" /\ cyc.tasks[Immediate].pc = "ready"
    /\ BeginCycle(Immediate, failure, signal)

\* The interval trigger fires: the scheduler runs the job unless an
\* instance it started is still running.
TimerCycle(failure, signal) ==
    /\ cyc.app = "main" /\ cyc.is_running
    /\ cyc.tasks[Timer].pc = "free"
    /\ BeginCycle(Timer, failure, signal)

\* trading_loop, awake with is_running set, calls run_trading_cycle.
LoopCycle(failure) ==
    /\ cyc.app = "web" /\ cyc.is_running
    /\ cyc.tasks[Loop].pc = "ready"
    /\ BeginCycle(Loop, failure, CHOOSE s \in CycleSignals : TRUE)

\* POST /api/run-once: run_once calls run_trading_cycle.
RunOnce(k, failure) ==
    /\ cyc.app = "web"
    /\ cyc.tasks[Once(k)].pc = "free"
    /\ BeginCycle(Once(k), failure, CHOOSE s \in CycleSignals : TRUE)

\* run_trading_cycle resumed after the broadcast of the price: indicators
\* and scoring, then the broadcast of the signal and the discovery request.
ScoreStep(t, failure, signal) ==
    /\ cyc.app = "web" /\ cyc.tasks[t].pc = "price"
    /\ IF failure # None
       THEN /\ cyc' = [cyc EXCEPT !.tasks[t] = ended(t)]
            /\ ret' = CycleEnd("ERROR", Get(failure))
       ELSE /\ cyc' = [cyc EXCEPT !.tasks[t] =
                           Task("discovery", Some(signal))]
            /\ UNCHANGED ret
    /\ UnchangedTrading /\ UnchangedOthers

\* The cycle of task t resumed with the outcome of find_bitcoin_markets:
\* selection and executor.execute follow without an await.  The cycle of
\* the scheduler ends here; the cycle of the dashboard goes on to its
\* broadcasts (of the trade, and of the portfolio in paper mode).
SelectAndExecute(t, outcome, market, now, venue) ==
    /\ cyc.tasks[t].pc = "discovery"
    /\ LET signal == Get(cyc.tasks[t].signal)
           r == execute(config, daily_trades, paper_trader, store, market,
                        signal, now, venue)
           reports == cyc.app = "web"
                          /\ (outcome = "selected" \/ paper_trader # None)
           after == IF outcome # "discovery failed" /\ reports
                    THEN Task("report", None)
                    ELSE ended(t)
       IN  /\ cyc' = [cyc EXCEPT !.tasks[t] = after]
           /\ IF outcome = "selected"
              THEN /\ r.paper_trader # None =>
                          Len(Get(r.paper_trader).portfolio.trades)
                              <= MaxTrades
                   /\ daily_trades' = r.daily_trades
                   /\ paper_trader' = r.paper_trader
                   /\ store' = r.store
                   /\ ret' = r.ret
              ELSE /\ ret' = IF outcome = "discovery failed"
                             THEN CycleEnd("ERROR", outcome)
                             ELSE CycleEnd("SKIPPED", outcome)
                   /\ UnchangedTrading
    /\ UnchangedOthers

\* run_trading_cycle resumed after its last broadcast: it returns.
ReportStep(t) ==
    /\ cyc.tasks[t].pc = "report"
    /\ cyc' = [cyc EXCEPT !.tasks[t] = ended(t)]
    /\ UNCHANGED ret
    /\ UnchangedTrading /\ UnchangedOthers

\* The job "daily_reset" of the scheduler.
DailyResetJob ==
    /\ cyc.app = "main" /\ cyc.is_running
    /\ ResetDailyCounter

CycleNext ==
    \/ SchedulerStart
    \/ StartBot
    \/ StopBot
    \/ \E failure \in FetchOutcomes \cup ScoreOutcomes,
          signal \in CycleSignals : ImmediateCycle(failure, signal)
    \/ \E failure \in FetchOutcomes \cup ScoreOutcomes,
          signal \in CycleSignals : TimerCycle(failure, signal)
    \/ \E failure \in FetchOutcomes : LoopCycle(failure)
    \/ \E k \in 1 .. MaxRunOnce, failure \in FetchOutcomes :
          RunOnce(k, failure)
    \/ \E t \in DOMAIN cyc.tasks, failure \in {None} \cup ScoreOutcomes,
          signal \in CycleSignals : ScoreStep(t, failure, signal)
    \/ \E t \in DOMAIN cyc.tasks, outcome \in SelectionOutcomes,
          market \in CycleMarkets, now \in Times, venue \in VenueOutcomes :
            /\ config.mode = "paper" => venue = None
            /\ SelectAndExecute(t, outcome, market, now, venue)
    \/ \E t \in DOMAIN cyc.tasks : ReportStep(t)
    \/ DailyResetJob
    \/ \E trade_id \in TradeIds, won \in BOOLEAN,
          exit_price \in ExitPriceSet, now \in Times :
            SettleTrade(trade_id, won, exit_price, now)

CycleSpec == CycleInit /\ [][CycleNext]_vars

\* ----------------------------------------------------------------- claims
\* A claim about what a call does for given arguments is stated of the
\* call's result in every reachable state, ExecuteResult and SettleResult
\* being what the actions Execute and SettleTrade apply; a claim that needs
\* no arguments is stated of the steps themselves.

\* The portfolio of the paper trader (paper mode).
Portfolio == Get(paper_trader).portfolio

Trades == Portfolio.trades

Skipped(reason) == Result(Some("SKIPPED"), Some(reason), None)

\* Every call of execute in the current state satisfies P.
ExecuteCalls(P(_, _, _, _, _)) ==
    \A market \in Markets, signal \in Signals, now \in Times,
       venue \in VenueOutcomes :
        (config.mode = "paper" => venue = None) =>
            P(market, signal, now, venue,
              ExecuteResult(market, signal, now, venue))

\* Every call of settle_trade in the current state satisfies P.
SettleCalls(P(_, _, _, _, _)) ==
    paper_trader # None =>
        \A trade_id \in TradeIds, won \in BOOLEAN,
           exit_price \in ExitPriceSet, now \in Times :
            P(trade_id, won, exit_price, now,
              SettleResult(trade_id, won, exit_price, now))

Confident(signal) == signal.confidence >= config.min_score_threshold

\* C1: execute reports the first gate that fails, in the order neutral
\* signal, low confidence (strictly below the threshold), daily limit; a
\* strategy is dispatched (the result is EXECUTED or FAILED) only when all
\* three gates pass, and then it is.
C1_Call(market, signal, now, venue, r) ==
    /\ signal.direction = "NEUTRAL" => r.ret = Skipped("neutral_signal")
    /\ (signal.direction # "NEUTRAL" /\ ~Confident(signal)) =>
            r.ret = Skipped("low_confidence")
    /\ (/\ signal.direction # "NEUTRAL"
        /\ Confident(signal)
        /\ daily_trades >= config.max_daily_trades) =>
            r.ret = Skipped("daily_limit_reached")
    /\ (/\ signal.direction # "NEUTRAL"
        /\ Confident(signal)
        /\ daily_trades < config.max_daily_trades) =>
            r.ret.status \in {Some("EXECUTED"), Some("FAILED")}

C1_GateOrder == ExecuteCalls(C1_Call)

\* C1 witness: with the daily limit reached, a later call was still
\* reported as low confidence, the earlier gate.
C1_Witness ==
    /\ ret = Skipped("low_confidence")
    /\ daily_trades = config.max_daily_trades

\* C2: a step that returns EXECUTED adds one to the daily counter, a step
\* that returns SKIPPED or FAILED leaves it alone, and the counter changes
\* in no step but an executed trade and reset_daily_counter.
C2_CounterFollowsStatus ==
    [][/\ ret'.status = Some("EXECUTED") => daily_trades' = daily_trades + 1
       /\ ret'.status \in {Some("SKIPPED"), Some("FAILED")} =>
            daily_trades' = daily_trades
       /\ daily_trades' # daily_trades =>
            ret'.status = Some("EXECUTED") \/ ResetDailyCounter]_vars

\* C2 witness: a failed paper execution after a counted one.
C2_Witness ==
    /\ config.mode = "paper"
    /\ ret.status = Some("FAILED")
    /\ daily_trades = 1
    /\ Len(Trades) = MaxTrades

\* C3: at the daily limit a tradable signal is skipped with
\* "daily_limit_reached"; every SKIPPED outcome leaves the paper trader
\* (balance, trades, id counter), the file and the daily counter as they
\* were.
C3_Call(market, signal, now, venue, r) ==
    /\ (/\ signal.direction # "NEUTRAL"
        /\ Confident(signal)
        /\ daily_trades = config.max_daily_trades) =>
            r.ret = Skipped("daily_limit_reached")
    /\ r.ret.status = Some("SKIPPED") =>
            /\ r.paper_trader = paper_trader
            /\ r.store = store
            /\ r.daily_trades = daily_trades

C3_SkipChangesNothing == ExecuteCalls(C3_Call)

\* C3 witness: the daily limit was hit with a portfolio that holds trades.
C3_Witness ==
    /\ config.mode = "paper"
    /\ ret = Skipped("daily_limit_reached")
    /\ daily_trades = config.max_daily_trades
    /\ Len(Trades) = MaxTrades

\* All three gates of execute pass for this signal in the current state.
GatesPass(signal) ==
    /\ signal.direction # "NEUTRAL"
    /\ Confident(signal)
    /\ daily_trades < config.max_daily_trades

\* C4: a successful simulated execution appends one OPEN Trade Record, YES
\* at the market's YES price for UP and NO at its NO price for DOWN, with
\* the configured stake; it takes exactly the stake off the current
\* balance and leaves the initial balance and the earlier records alone.
C4_Call(market, signal, now, venue, r) ==
    (/\ config.mode = "paper"
     /\ GatesPass(signal)
     /\ config.trade_amount_usd <= Portfolio.current_balance) =>
        LET p == Get(r.paper_trader).portfolio
            t == p.trades[Len(p.trades)]
        IN  /\ r.ret.status = Some("EXECUTED")
            /\ Len(p.trades) = Len(Trades) + 1
            /\ SubSeq(p.trades, 1, Len(Trades)) = Trades
            /\ t.status = "OPEN"
            /\ t.exit_price = None /\ t.pnl = None /\ t.settled_at = None
            /\ signal.direction = "UP" =>
                    /\ t.direction = "YES"
                    /\ t.entry_price = market.current_yes_price
            /\ signal.direction = "DOWN" =>
                    /\ t.direction = "NO"
                    /\ t.entry_price = market.current_no_price
            /\ t.amount_usd = config.trade_amount_usd
            /\ p.current_balance =
                   Portfolio.current_balance - config.trade_amount_usd
            /\ p.initial_balance = Portfolio.initial_balance

C4_ExecutionCreatesTrade == ExecuteCalls(C4_Call)

\* C4 witness: a NO trade was bought at 0.40 after an earlier trade had
\* been settled.
C4_Witness ==
    /\ config.mode = "paper"
    /\ ret.status = Some("EXECUTED")
    /\ Len(Trades) = 2
    /\ Trades[2].direction = "NO" /\ Trades[2].entry_price = 40
    /\ Trades[2].status = "OPEN"
    /\ Trades[1].status = "WON"

\* C5: a stake above the balance makes execute return FAILED with the
\* insufficient-balance error, raising nothing: no trade, no id consumed,
\* balance, file and daily counter as before.  A stake equal to the
\* balance is executed and leaves a balance of zero.
C5_Call(market, signal, now, venue, r) ==
    (config.mode = "paper" /\ GatesPass(signal)) =>
        /\ config.trade_amount_usd > Portfolio.current_balance =>
                /\ r.ret = Result(Some("FAILED"),
                                  Some("Insufficient balance"), None)
                /\ r.paper_trader = paper_trader
                /\ r.store = store
                /\ r.daily_trades = daily_trades
        /\ config.trade_amount_usd = Portfolio.current_balance =>
                /\ r.ret.status = Some("EXECUTED")
                /\ Len(Get(r.paper_trader).portfolio.trades) =
                       Len(Trades) + 1
                /\ Get(r.paper_trader).portfolio.current_balance = 0

C5_InsufficientFunds == ExecuteCalls(C5_Call)

\* C5 witness: the balance was spent down to zero by a stake equal to it,
\* and the next execution failed for insufficient balance.
C5_Witness ==
    /\ config.mode = "paper"
    /\ ret = Result(Some("FAILED"), Some("Insufficient balance"), None)
    /\ Portfolio.current_balance = 0

\* C6: in live mode an error raised by the venue is returned as FAILED with
\* the error message; execute raises nothing and the daily counter stays.
C6_Call(market, signal, now, venue, r) ==
    (config.mode = "live" /\ GatesPass(signal) /\ venue # None) =>
        /\ r.ret = Result(Some("FAILED"), venue, None)
        /\ r.ret.raised = None
        /\ r.daily_trades = daily_trades

C6_LiveErrorIsFailed == ExecuteCalls(C6_Call)

\* C6 witness: a live order failed after an earlier one went through.
C6_Witness ==
    /\ config.mode = "live"
    /\ ret.status = Some("FAILED")
    /\ daily_trades = 1

\* The index in Trades of the trade settle_trade finds for this id, 0 when
\* there is none.
Found(trade_id) == find_trade(Trades, trade_id)

\* The current balance after an operation of the paper trader.
BalanceAfter(o) == o.paper_trader.portfolio.current_balance

\* The trade is OPEN with stake 100 and entry price 0.40.
Stake100At40(t) ==
    t.status = "OPEN" /\ t.amount_usd = 100 /\ t.entry_price = 40

\* C7 as stated: settling as WON a trade with stake 100 and entry price
\* 0.40 increases the balance by exactly 150.
C7_Original_Call(trade_id, won, exit_price, now, o) ==
    (won /\ Found(trade_id) # 0 /\ Stake100At40(Trades[Found(trade_id)])) =>
        BalanceAfter(o) = Portfolio.current_balance + 150

C7_Original == SettleCalls(C7_Original_Call)

\* C7, amended: settling as WON a trade with stake 100 and entry price 0.40
\* increases the balance by exactly 250 (shares = 250, payout = 250) and
\* records pnl = 150; 150 is the gain over the balance before the trade's
\* execution, which had taken the stake of 100 off.
C7_Call(trade_id, won, exit_price, now, o) ==
    (won /\ Found(trade_id) # 0 /\ Stake100At40(Trades[Found(trade_id)])) =>
        LET t == o.paper_trader.portfolio.trades[Found(trade_id)]
        IN  /\ o.raised = None
            /\ t.status = "WON"
            /\ t.pnl = Some(150)
            /\ BalanceAfter(o) = Portfolio.current_balance + 250

C7_WonPaysPayout ==
    /\ SettleCalls(C7_Call)
    /\ (/\ paper_trader # None
        /\ Len(Trades) = 1
        /\ Trades[1].status = "WON"
        /\ Trades[1].amount_usd = 100
        /\ Trades[1].entry_price = 40) =>
            Portfolio.current_balance = Portfolio.initial_balance + 150

\* C7 witness: the scenario of test_settle_winning_trade, 1000 -> 900 ->
\* 1150.
C7_Witness ==
    /\ paper_trader # None
    /\ Len(Trades) = 1
    /\ Trades[1].status = "WON"
    /\ Trades[1].amount_usd = 100
    /\ Trades[1].entry_price = 40
    /\ Trades[1].pnl = Some(150)
    /\ Portfolio.current_balance = 1150

\* C8: settling an OPEN trade as LOST marks it LOST with pnl = -stake and
\* leaves the current balance as it was just before the settlement.
C8_Call(trade_id, won, exit_price, now, o) ==
    (~won /\ Found(trade_id) # 0
          /\ Trades[Found(trade_id)].status = "OPEN") =>
        LET t == o.paper_trader.portfolio.trades[Found(trade_id)]
        IN  /\ o.raised = None
            /\ t.status = "LOST"
            /\ t.pnl = Some(0 - Trades[Found(trade_id)].amount_usd)
            /\ BalanceAfter(o) = Portfolio.current_balance

C8_LostKeepsBalance == SettleCalls(C8_Call)

\* C8 witness: a trade of 500 was lost and the balance is the 500 left
\* after its execution.
C8_Witness ==
    /\ paper_trader # None
    /\ Len(Trades) = 1
    /\ Trades[1].status = "LOST"
    /\ Trades[1].pnl = Some(0 - 500)
    /\ Portfolio.current_balance = 500

\* C9: settle_trade with an unknown id, or with the id of a trade that is
\* WON or LOST, raises nothing and leaves the paper trader (balance, every
\* field of every trade) and the file as they were, for either value of
\* won.
C9_Call(trade_id, won, exit_price, now, o) ==
    (\/ Found(trade_id) = 0
     \/ Trades[Found(trade_id)].status \in {"WON", "LOST"}) =>
        /\ o.raised = None
        /\ o.paper_trader = Get(paper_trader)
        /\ o.store = store

C9_SettleIdempotent == SettleCalls(C9_Call)

\* C9 witness: a trade already LOST was settled again, and a warning was
\* all that came of it.
C9_Witness ==
    /\ paper_trader # None
    /\ ret = Returned(Some("already settled"), None)
    /\ \E i \in 1 .. Len(Trades) : Trades[i].status = "LOST"
    /\ \A i \in 1 .. Len(Trades) : Trades[i].status # "WON"

\* C10: reset_daily_counter sets the daily counter to zero from any value
\* and leaves the paper trader (balances, trades) and the file unchanged.
C10_ResetOnlyCounter ==
    [][ResetDailyCounter =>
          /\ daily_trades' = 0
          /\ paper_trader' = paper_trader
          /\ store' = store]_vars

\* C10 witness: the counter is back at zero with MaxTrades trades of the
\* day in the portfolio.
C10_Witness ==
    /\ paper_trader # None
    /\ Len(Trades) = MaxTrades
    /\ daily_trades = 0
    /\ ret = Returned(None, None)
    /\ \A i \in 1 .. Len(Trades) : Trades[i].status = "OPEN"

\* ------------------------------------------------- claims on the selector

\* select_best_market has been called.
Selected == sel.now # None

\* The time of the call.
SelectedAt == Get(sel.now)

\* The market can be returned: its spread is below 0.10 and its time to
\* resolution, where it can be computed, is positive.
Eligible(m, now) ==
    /\ spread(m) < 10
    /\ m.end_date.aware => m.end_date.t > now

\* The indices of the eligible markets of the call.
EligibleSet == {i \in DOMAIN sel.markets : Eligible(sel.markets[i], SelectedAt)}

\* The selection score of the i-th market of the call.
ScoreOf(i) == Get(market_score(sel.markets[i], SelectedAt))

\* C11: select_best_market never returns a market whose spread is >= 0.10
\* nor one whose resolution time is at or before the time of the call, a
\* resolution time without a timezone included.
C11_NeverIlliquidOrPast ==
    (Selected /\ sel.out # None) =>
        /\ spread(Get(sel.out)) < 10
        /\ Get(sel.out).end_date.t > SelectedAt

TimeBands(minutes, first3) ==
    IF minutes <= 0 THEN None
    ELSE IF minutes \in first3 .. 60 THEN Some(3)
    ELSE IF minutes \in 61 .. 240 THEN Some(2)
    ELSE IF minutes \in 241 .. 1440 THEN Some(1)
    ELSE Some(0)

\* Every market of the call gets the time part TimeBands gives, and 0 for a
\* resolution time that cannot be compared with the time of the call.
TimePartIs(first3) ==
    Selected =>
        \A i \in DOMAIN sel.markets :
            LET e == sel.markets[i].end_date
            IN  time_score(e, SelectedAt) =
                    IF e.aware THEN TimeBands(e.t - SelectedAt, first3)
                    ELSE Some(0)

\* C13 as stated: the first band is (15min, 1h], so a market resolving in
\* exactly 15 minutes gets 0.
C13_Original == TimePartIs(16)

\* C13, amended: the time part is +3 for a time in [15min, 1h], exactly 15
\* minutes included, +2 for (1h, 4h], +1 for (4h, 24h], 0 for a positive
\* time below 15 minutes or above 24 hours and for a resolution time that
\* cannot be compared; a time <= 0 makes the market ineligible.
C13_TimeBandsClosedAt15 == TimePartIs(15)

\* C13 witness: of two markets that differ in resolution time only, the one
\* resolving in exactly 15 minutes was preferred to the earlier-listed one
\* resolving in 14.
C13_Witness ==
    /\ Selected
    /\ Len(sel.markets) = 2
    /\ sel.markets[1].end_date = Aware(SelectedAt + 14)
    /\ sel.markets[2].end_date = Aware(SelectedAt + 15)
    /\ sel.markets[1].current_no_price = sel.markets[2].current_no_price
    /\ sel.out = Some(sel.markets[2])

\* --------------------------------------------------- claims on the scorer

\* The constructor has run: a scorer was built or an exception raised.
Constructed == sc.scorer # None \/ sc.raised # None

\* calculate_signal has run.
Scored == sc.signal # None

\* The signal it returned and the scorer that made it.
TheSignal == Get(sc.signal)

TheScorer == Get(sc.scorer)

\* The weighted sum of the per-indicator signals of TheSignal, as the
\* numerator over TheScorer.den.
WeightedSum ==
    LET g == TheSignal.indicator_signals
        w == TheScorer.weights
    IN  g.rsi * w.rsi + g.macd * w.macd
            + g.ema_crossover * w.ema_crossover + g.bollinger * w.bollinger

\* Fractions a and b are the same number.
SameNumber(a, b) == a[1] * b[2] = b[1] * a[2]

\* C14: for a weight map of non-negative entries that does not sum to 1.0,
\* the constructor does not fail, and the effective weights sum to 1.0
\* within 1e-6, each the original weight divided by the original sum.
C14_Renormalised ==
    (/\ Constructed
     /\ sc.weights # None
     /\ \A k \in Indicators : Get(sc.weights)[k] >= 0
     /\ weight_sum(Get(sc.weights)) # 1000) =>
        /\ sc.raised = None
        /\ abs(weight_sum(TheScorer.weights) - TheScorer.den) * 1000000
               <= TheScorer.den
        /\ \A k \in Indicators :
               TheScorer.weights[k] * weight_sum(Get(sc.weights)) =
                   Get(sc.weights)[k] * TheScorer.den

\* The RSI signal is atBound for an RSI equal to the oversold bound and +2
\* for an RSI 1 below it.
RsiAtOversold(atBound) ==
    Scored =>
        /\ sc.indicators.rsi = sc.config.rsi_oversold =>
               TheSignal.indicator_signals.rsi = atBound
        /\ sc.indicators.rsi = sc.config.rsi_oversold - 1 =>
               TheSignal.indicator_signals.rsi = 2

\* C15 as stated: the RSI signal for an RSI equal to the oversold bound is
\* 0, and for an RSI 1 below the bound it is +2.
C15_Original == RsiAtOversold(0)

\* C15, amended: the RSI signal for an RSI equal to the oversold bound is
\* +1 when the bound is below 40 (the default 30 is) and 0 when the bound
\* is 40 or more; for an RSI 1 below the bound it is +2.
C15_RsiAtOversoldBound ==
    RsiAtOversold(IF sc.config.rsi_oversold < 40 THEN 1 ELSE 0)

\* C15 witness: RSI 30 scored under the default bound of 30 gave +1.
C15_Witness ==
    /\ Scored
    /\ sc.config.rsi_oversold = 30
    /\ sc.indicators.rsi = 30
    /\ TheSignal.indicator_signals.rsi = 1

C17_CompositeSignal ==
    Scored =>
        LET n == WeightedSum
            d == 2 * TheScorer.den
            g == TheSignal
        IN  /\ SameNumber(g.raw_score, <<n, d>>)
            /\ g.direction = "UP" <=> 10 * n > d
            /\ g.direction = "DOWN" <=> 10 * n < 0 - d
            /\ g.direction = "NEUTRAL" <=> (10 * n <= d /\ 10 * n >= 0 - d)
            /\ g.direction = "NEUTRAL" => SameNumber(g.confidence, <<0, 1>>)
            /\ g.direction # "NEUTRAL" =>
                   SameNumber(g.confidence,
                              IF abs(n) < d THEN <<abs(n), d>> ELSE <<1, 1>>)

\* C17 witness: a raw score of exactly 0.1 came out NEUTRAL with confidence
\* 0.
C17_Witness ==
    /\ Scored
    /\ SameNumber(TheSignal.raw_score, <<1, 10>>)
    /\ TheSignal.direction = "NEUTRAL"
    /\ TheSignal.confidence = <<0, 1>>

\* C18: every signal scored has its raw score in [-1, 1], its confidence in
\* [0, 1] and its four per-indicator signals in -2 .. 2.
C18_SignalInRange ==
    Scored =>
        /\ abs(TheSignal.raw_score[1]) <= TheSignal.raw_score[2]
        /\ TheSignal.confidence[1] >= 0
        /\ TheSignal.confidence[1] <= TheSignal.confidence[2]
        /\ \A k \in Indicators :
               TheSignal.indicator_signals[k] \in (0 - 2) .. 2

\* The scorer has the default weights and the default thresholds.
DefaultScorer ==
    /\ TheScorer.weights = INDICATOR_WEIGHTS
    /\ TheScorer.den = 1000
    /\ sc.config = IndicatorConfig(30, 70)

\* C19: with the default weights and thresholds the bullish bundle of the
\* tests scores UP with confidence above 0.5 and the bearish bundle DOWN
\* with confidence above 0.5.
C19_TestScenarios ==
    (Scored /\ DefaultScorer) =>
        /\ sc.indicators = BullishBundle =>
               /\ TheSignal.direction = "UP"
               /\ 2 * TheSignal.confidence[1] > TheSignal.confidence[2]
        /\ sc.indicators = BearishBundle =>
               /\ TheSignal.direction = "DOWN"
               /\ 2 * TheSignal.confidence[1] > TheSignal.confidence[2]

\* C19 witness: the bullish bundle was scored by the default scorer, with
\* a raw score of 0.875.
C19_Witness ==
    /\ Scored
    /\ DefaultScorer
    /\ sc.indicators = BullishBundle
    /\ SameNumber(TheSignal.raw_score, <<7, 8>>)

\* ------------------------------------------------ claims on serialization

\* The portfolio read back from its own dict.
RoundTrip == PaperPortfolio_from_dict(PaperPortfolio_to_dict(Portfolio))

\* C20: for every portfolio execute and settle operations can produce,
\* from_dict(to_dict(portfolio)) has the same initial balance, the same
\* current balance and the same trades in the same order, every field of
\* every trade equal.
C20_RoundTrip ==
    paper_trader # None =>
        /\ RoundTrip.initial_balance = Portfolio.initial_balance
        /\ RoundTrip.current_balance = Portfolio.current_balance
        /\ Len(RoundTrip.trades) = Len(Trades)
        /\ \A i \in 1 .. Len(Trades) :
            LET a == RoundTrip.trades[i]
                b == Trades[i]
            IN  /\ a.id = b.id
                /\ a.timestamp = b.timestamp
                /\ a.direction = b.direction
                /\ a.prediction = b.prediction
                /\ a.amount_usd = b.amount_usd
                /\ a.entry_price = b.entry_price
                /\ a.token_id = b.token_id
                /\ a.status = b.status
                /\ a.exit_price = b.exit_price
                /\ a.pnl = b.pnl
                /\ a.settled_at = b.settled_at

\* C20 witness: a portfolio with a trade won and a trade lost, pnl and
\* settlement time set, is read back as it was.
C20_Witness ==
    /\ paper_trader # None
    /\ Len(Trades) = 2
    /\ Trades[1].status = "WON" /\ Trades[1].pnl = Some(150)
    /\ Trades[2].status = "LOST" /\ Trades[2].settled_at # None
    /\ RoundTrip = Portfolio

\* ------------------------------------------- claims about the paper trader

\* What a new PaperTrader started on the file now would hold.
Reloaded == PaperTrader_at(store, PAPER_TRADING_INITIAL_BALANCE)

\* Exit price, pnl and settlement time of a record are all unset / all set.
AllUnset(t) == t.exit_price = None /\ t.pnl = None /\ t.settled_at = None

AllSet(t) == t.exit_price # None /\ t.pnl # None /\ t.settled_at # None

\* C21: between operations a new PaperTrader started on the same store loads
\* exactly the balance and the trade list the running one has (the stored
\* blob is the in-memory Portfolio; before the first save there is no file
\* and both are the new portfolio).
C21_StoreIsPortfolio ==
    /\ Reloaded.portfolio = Portfolio
    /\ store # None => Get(store) = PaperPortfolio_to_dict(Portfolio)

\* C25: the ids of the Trade Records of a Portfolio are pairwise different
\* and increase along the trade list, the order of creation, whatever
\* executions, settlements and restarts produced it.
C25_IdsUniqueMonotonic ==
    \A i, j \in 1 .. Len(Trades) : i < j => Trades[i].id < Trades[j].id

\* Two records created before a restart and settled, and the trader
\* restarted: its counter is the number of records loaded.
C25_Witness ==
    /\ Len(Trades) = 2
    /\ Trades[1].id = 1 /\ Trades[2].id = 2
    /\ Trades[1].status = "WON" /\ Trades[2].status = "LOST"
    /\ Get(paper_trader) = Reloaded
    /\ ret = Returned(None, None)

\* The fields of a record that no operation writes after its creation.
SameRecord(t, u) ==
    /\ t.id = u.id /\ t.timestamp = u.timestamp
    /\ t.direction = u.direction /\ t.prediction = u.prediction
    /\ t.amount_usd = u.amount_usd /\ t.entry_price = u.entry_price
    /\ t.token_id = u.token_id

\* The step is a call of settle_trade.
SettleStep ==
    \E trade_id \in TradeIds, won \in BOOLEAN, exit_price \in ExitPriceSet,
       now \in Times : SettleTrade(trade_id, won, exit_price, now)

StakeAtRisk(t) == IF t.status \in {"OPEN", "LOST"} THEN t.amount_usd ELSE 0

\* The pnl of a WON record, 0 for the others.
PnlWon(t) == IF t.status = "WON" THEN Get(t.pnl) ELSE 0

\* Sum of the stakes at risk of a trade list.
RECURSIVE SumStakeAtRisk(_)
SumStakeAtRisk(trades) ==
    IF trades = <<>> THEN 0
    ELSE StakeAtRisk(Head(trades)) + SumStakeAtRisk(Tail(trades))

\* Sum of the pnl of the WON records of a trade list.
RECURSIVE SumPnlWon(_)
SumPnlWon(trades) ==
    IF trades = <<>> THEN 0
    ELSE PnlWon(Head(trades)) + SumPnlWon(Tail(trades))

\* C27: the balance is the initial balance less the stakes of the OPEN and
\* LOST records plus the pnl of the WON records, and the pnl of a WON record
\* is stake / entry_price - stake (prices in hundredths).
C27_LedgerConservation ==
    /\ Portfolio.current_balance =
           Portfolio.initial_balance - SumStakeAtRisk(Trades)
               + SumPnlWon(Trades)
    /\ \A i \in 1 .. Len(Trades) :
           Trades[i].status = "WON" =>
               (Get(Trades[i].pnl) + Trades[i].amount_usd)
                   * Trades[i].entry_price = Trades[i].amount_usd * 100

\* 100 staked at 0.40 and won, 500 staked and lost: 1000 - 500 + 150.
C27_Witness ==
    /\ Len(Trades) = 2
    /\ Trades[1].amount_usd = 100 /\ Trades[1].entry_price = 40
    /\ Trades[1].status = "WON" /\ Trades[1].pnl = Some(150)
    /\ Trades[2].amount_usd = 500 /\ Trades[2].status = "LOST"
    /\ Portfolio.current_balance = 650

\* C29: the simulated balance is never negative.
C29_BalanceNonNegative == Portfolio.current_balance >= 0

\* C30: every record is OPEN with exit price, pnl and settlement time
\* unset, or WON or LOST with all three set.
C30_SettledFieldsTogether ==
    \A i \in 1 .. Len(Trades) :
        \/ Trades[i].status = "OPEN" /\ AllUnset(Trades[i])
        \/ Trades[i].status \in {"WON", "LOST"} /\ AllSet(Trades[i])

\* ------------------------------------------------ claims about discovery

\* A raw entry is malformed: fewer than two token ids, missing or empty
\* outcome prices, or a numeric field that does not parse.
Malformed(market) ==
    \/ market.clobTokenIds.kind # "list"
    \/ Len(market.clobTokenIds.items) < 2
    \/ market.outcomePrices.kind # "list"
    \/ Len(market.outcomePrices.items) < 2
    \/ \E i \in 1 .. Len(market.outcomePrices.items) :
           market.outcomePrices.items[i].kind # "num"
    \/ /\ market.volume.kind = "str"
       /\ market.volume.items[1].kind = "bad"

\* The entries of the response, as a set.
Entries ==
    {Get(disc.markets_data)[i] : i \in 1 .. Len(Get(disc.markets_data))}

\* C24: when the response is a success, discovery of a body with malformed
\* entries does not fail, no market of the result comes from a malformed
\* entry, and every well-formed Bitcoin entry is in the result.
C24_MalformedDropped ==
    (disc.status = Some(200) /\ (disc.out # None \/ disc.raised # None)) =>
        /\ disc.raised = None
        /\ \A e \in Entries :
               LET returned ==
                       \E i \in 1 .. Len(Get(disc.out)) :
                           Get(disc.out)[i].condition_id = e.conditionId
               IN  /\ Malformed(e) => ~returned
                   /\ (~Malformed(e) /\ is_bitcoin_price_market(e)) =>
                          returned

\* ------------------------------------------- claims about trading cycles

\* The tasks that are in a trading cycle: started and not yet finished.
InProgress == {t \in DOMAIN cyc.tasks : cyc.tasks[t].pc \in InCycle}

\* C22: under either entry point at most one trading cycle is in progress
\* at any time.
C22_OneCycleAtATime == Cardinality(InProgress) <= 1

\* The step resumes the cycle of task t after discovery: selection and
\* execution, the only step of a cycle that calls execute.
ExecutionStep(t) ==
    /\ cyc.tasks[t].pc = "discovery"
    /\ cyc'.tasks[t].pc # "discovery"
    /\ cyc'.is_running = cyc.is_running

\* The step is the execution step of a cycle and execute returned EXECUTED.
ExecutedStep ==
    /\ \E t \in DOMAIN cyc.tasks : ExecutionStep(t)
    /\ ret'.status = Some("EXECUTED")

\* C23: a step of a trading cycle (or its cancellation) changes balance,
\* trade list, daily counter and file only when it is the execution step
\* and the execution succeeded, and then the counter goes up by one and, in
\* paper mode, one record is appended, its stake debited and the file
\* written, all in that step; every other step of a cycle, failing or not,
\* leaves them as they are.  A cycle that fails reports ERROR and leaves
\* the entry point running, its task back where the next cycle starts.
C23_NoPartialMutation ==
    [][cyc' # cyc =>
          /\ IF ExecutedStep
             THEN /\ daily_trades' = daily_trades + 1
                  /\ paper_trader # None =>
                       LET old == Get(paper_trader).portfolio
                           new == Get(paper_trader').portfolio
                       IN  /\ Len(new.trades) = Len(old.trades) + 1
                           /\ new.current_balance =
                                  old.current_balance
                                      - config.trade_amount_usd
                           /\ store' = save_portfolio(new)
             ELSE UNCHANGED <<daily_trades, paper_trader, store>>
          /\ (ret' # ret /\ ret'.status = Some("ERROR")) =>
                 /\ cyc'.is_running = cyc.is_running
                 /\ \E t \in DOMAIN cyc.tasks :
                        /\ cyc.tasks[t].pc \in InCycle \cup {"ready", "free"}
                        /\ cyc'.tasks[t] = ended(t)
                        /\ \A u \in DOMAIN cyc.tasks \ {t} :
                               cyc'.tasks[u] = cyc.tasks[u]]_vars

\* A cycle has failed at discovery after an earlier cycle executed a trade:
\* the record, the debit and the count of that trade are all there.
C23_Witness ==
    /\ config.mode = "paper"
    /\ ret = CycleEnd("ERROR", "discovery failed")
    /\ Len(Trades) = 1
    /\ Portfolio.current_balance = 500
    /\ daily_trades = 1

\* C28: the daily counter stays between 0 and max_daily_trades; in paper
\* mode every step either is the reset (counter to 0, no record created)
\* or raises the counter by the number of records it creates, so the
\* counter is the number of records created since the last reset.
C28_CounterBounded ==
    /\ [](0 <= daily_trades /\ daily_trades <= config.max_daily_trades)
    /\ [][paper_trader # None =>
            LET created == Len(Get(paper_trader').portfolio.trades)
                               - Len(Get(paper_trader).portfolio.trades)
            IN  \/ daily_trades' = 0 /\ created = 0
                \/ daily_trades' = daily_trades + created]_vars

\* Two cycles overlap at their suspension points with the counter at its
\* limit, the last execution skipped for it.
C28_Witness ==
    /\ config.mode = "paper"
    /\ Cardinality(InProgress) >= 2
    /\ daily_trades = config.max_daily_trades
    /\ Len(Trades) = daily_trades
    /\ ret = Skipped("daily_limit_reached")

====
